---- MODULE Spec2Model ----
(***************************************************************************)
(* Room-mapping view (app/events/[eventId]/room-mapping/page.tsx): the     *)
(* component state (unassignedGuests, rooms, draggedGuest, warning) and    *)
(* its event handlers, one action per handler; handleAutoAssign also step  *)
(* by step (auto).  Guest list view (manage-guests/page.tsx): session,     *)
(* guests, loading, the fetches in flight and the rendered guestGroups.    *)
(***************************************************************************)
EXTENDS Integers, Sequences, FiniteSets, Bags, TLC

VARIABLES unassignedGuests, rooms, draggedGuest, warning, mounted, lastOp,
          auto, session, guests, loading, fetches, guestGroups

\* The state of the guest list view (manage-guests/page.tsx).
guestPage == <<session, guests, loading, fetches, guestGroups>>

vars == <<unassignedGuests, rooms, draggedGuest, warning, mounted, lastOp,
          auto, session, guests, loading, fetches, guestGroups>>

\* ------------------------------------------------------------------ bounds
\* Largest number of guest entries (pool plus all rooms) the model follows.
MaxEntries == 5

\* ------------------------------------------------------------- data model
\* JavaScript null (a record, so that it compares with the records below).
NULL == [null |-> TRUE]

Guest(id, name, occupancy) == [id |-> id, name |-> name, occupancy |-> occupancy]

Room(id, hotel, type, capacity, assigned) ==
    [id |-> id, hotel |-> hotel, type |-> type, capacity |-> capacity, assigned |-> assigned]

\* useState initial value of unassignedGuests.
DemoGuests ==
    << Guest("1", "Rajesh Kumar", 2),
       Guest("2", "Priya Sharma", 1),
       Guest("3", "Amit Patel", 3),
       Guest("4", "Sneha Reddy", 2) >>

\* Fallback / demo rooms used when nothing is saved.
FallbackRooms ==
    << Room("r1", "The Grand Palace", "Deluxe Room", 2, <<>>),
       Room("r2", "The Grand Palace", "Premium Suite", 3, <<>>) >>

\* ---------------------------------------------------------------- helpers
\* assigned.reduce((sum, g) => sum + g.occupancy, 0)
RECURSIVE Occupancy(_)
Occupancy(assigned) ==
    IF assigned = <<>> THEN 0
    ELSE Head(assigned).occupancy + Occupancy(Tail(assigned))

\* list.filter(g => g.id !== id)
RECURSIVE FilterOut(_, _)
FilterOut(list, id) ==
    IF list = <<>> THEN <<>>
    ELSE IF Head(list).id # id
         THEN <<Head(list)>> \o FilterOut(Tail(list), id)
         ELSE FilterOut(Tail(list), id)

\* rooms.findIndex(r => r.id === roomId); 0 stands for JavaScript's -1.
FindIndex(rs, roomId) ==
    IF \E i \in 1..Len(rs) : rs[i].id = roomId
    THEN CHOOSE i \in 1..Len(rs) :
            /\ rs[i].id = roomId
            /\ \A j \in 1..(i - 1) : rs[j].id # roomId
    ELSE 0

\* Number of guest entries held by all rooms together.
RECURSIVE AssignedCount(_)
AssignedCount(rs) ==
    IF rs = <<>> THEN 0 ELSE Len(Head(rs).assigned) + AssignedCount(Tail(rs))

Entries(pool, rs) == Len(pool) + AssignedCount(rs)

Op(op, target, result) == [op |-> op, target |-> target, result |-> result]

\* The text of the capacity warning: the three values interpolated into it.
CapacityWarning(guest, targetRoom) ==
    [guest |-> guest.name, type |-> targetRoom.type, capacity |-> targetRoom.capacity]

\* Variant of the capacity test that leaves out the dragged guest.
ExceedsCapacityIgnoringGuest(currentOccupancy, guest, targetRoom) ==
    currentOccupancy > targetRoom.capacity

\* Variant of the capacity test that also refuses an exact fit.
ExceedsCapacityStrict(currentOccupancy, guest, targetRoom) ==
    currentOccupancy + guest.occupancy >= targetRoom.capacity

\* The capacity test of handleDropToRoom.
ExceedsCapacity(currentOccupancy, guest, targetRoom) ==
    currentOccupancy + guest.occupancy > targetRoom.capacity

\* No call of handleAutoAssign is being followed step by step.
AutoIdle == [pc |-> "idle"]

\* useAuth() and the route parameter as seen by a view that is not shown.
NoSession == [eventId |-> "", token |-> "", isAuthenticated |-> FALSE]

\* useState initial values of the guest list view, before its effect runs.
GuestPageInit(s) ==
    /\ session = s
    /\ guests = <<>>
    /\ loading = TRUE
    /\ fetches = <<>>
    /\ guestGroups = <<>>

\* ------------------------------------------------------------------- Init
Init ==
    /\ unassignedGuests = DemoGuests
    /\ rooms = <<>>
    /\ draggedGuest = NULL
    /\ warning = NULL
    /\ mounted = FALSE
    /\ lastOp = Op("construct", "", "")
    /\ auto = AutoIdle
    /\ GuestPageInit(NoSession)

\* ---------------------------------------------------------------- actions
\* HOTELS of ../hotels/data: the catalogue the saved selection refers to.
HOTELS ==
    << [id |-> "h1", name |-> "Seaside Resort",
        rooms |-> << << [id |-> 101, name |-> "Single Room", capacity |-> 1] >>,
                     << [id |-> 102, name |-> "Family Suite", capacity |-> 4],
                        [id |-> 103, name |-> "Double Room", capacity |-> 2] >> >>] >>

\* The values localStorage.getItem(`mapping_${eventId}`) is followed for:
\* nothing saved, a selection of one room of each type, an unknown hotel.
SavedMappings ==
    { NULL,
      [hotelId |-> "h1", selectedRooms |-> (101 :> 1 @@ 102 :> 1)],
      [hotelId |-> "h0", selectedRooms |-> (101 :> 1 @@ 102 :> 1)] }

\* HOTELS.find(h => h.id === hotelId); NULL stands for undefined.
FindHotel(hotelId) ==
    IF \E i \in 1..Len(HOTELS) : HOTELS[i].id = hotelId
    THEN HOTELS[CHOOSE i \in 1..Len(HOTELS) :
                    /\ HOTELS[i].id = hotelId
                    /\ \A j \in 1..(i - 1) : HOTELS[j].id # hotelId]
    ELSE NULL

\* category.find(r => r.id === Number(roomId)); NULL stands for undefined.
FindInCategory(category, roomId) ==
    IF \E i \in 1..Len(category) : category[i].id = roomId
    THEN category[CHOOSE i \in 1..Len(category) :
                    /\ category[i].id = roomId
                    /\ \A j \in 1..(i - 1) : category[j].id # roomId]
    ELSE NULL

\* Object.values(hotel.rooms).forEach(category => { if (found) roomDetails = found })
RECURSIVE FindRoomDetails(_, _, _)
FindRoomDetails(categories, roomId, roomDetails) ==
    IF categories = <<>> THEN roomDetails
    ELSE LET found == FindInCategory(Head(categories), roomId)
         IN  FindRoomDetails(Tail(categories), roomId,
                             IF found # NULL THEN found ELSE roomDetails)

\* `${roomDetails.id}-${i}`
InstanceId(id, i) == ToString(id) \o "-" \o ToString(i)

\* Variant of the instance loop that runs once too often.
RECURSIVE PushInstancesInclusive(_, _, _, _, _)
PushInstancesInclusive(generatedRooms, hotel, roomDetails, i, qty) ==
    IF i > qty THEN generatedRooms
    ELSE PushInstancesInclusive(
            Append(generatedRooms,
                   Room(InstanceId(roomDetails.id, i), hotel.name, roomDetails.name,
                        roomDetails.capacity, <<>>)),
            hotel, roomDetails, i + 1, qty)

\* for (let i = 0; i < qty; i++) generatedRooms.push({...})
RECURSIVE PushInstances(_, _, _, _, _)
PushInstances(generatedRooms, hotel, roomDetails, i, qty) ==
    IF i >= qty THEN generatedRooms
    ELSE PushInstances(
            Append(generatedRooms,
                   Room(InstanceId(roomDetails.id, i), hotel.name, roomDetails.name,
                        roomDetails.capacity, <<>>)),
            hotel, roomDetails, i + 1, qty)

\* Object.entries(selectedRooms).forEach(([roomId, count]) => ...): integer
\* keys are visited in ascending order.
RECURSIVE GenerateRooms(_, _, _, _)
GenerateRooms(generatedRooms, hotel, selectedRooms, keys) ==
    IF keys = {} THEN generatedRooms
    ELSE LET roomId == CHOOSE k \in keys : \A m \in keys : k <= m
             qty == selectedRooms[roomId]
             roomDetails == FindRoomDetails(hotel.rooms, roomId, NULL)
         IN  GenerateRooms(
                IF qty > 0 /\ roomDetails # NULL
                THEN PushInstances(generatedRooms, hotel, roomDetails, 0, qty)
                ELSE generatedRooms,
                hotel, selectedRooms, keys \ {roomId})

\* The rooms the mount effect installs for a saved mapping.
InitialRooms(savedMapping, current) ==
    IF savedMapping # NULL
    THEN LET hotel == FindHotel(savedMapping.hotelId)
         IN  IF hotel # NULL
             THEN GenerateRooms(<<>>, hotel, savedMapping.selectedRooms,
                                DOMAIN savedMapping.selectedRooms)
             ELSE current
    ELSE FallbackRooms

\* Largest purchased quantity of a room type in the room-initialization
\* specification.
MaxQty == 4

\* Every saved selection of the catalogue's hotel with quantities up to
\* MaxQty (a type may also be missing from the selection), or nothing saved.
WideMappings ==
    {NULL} \cup
    { [hotelId |-> "h1", selectedRooms |-> f] :
        f \in UNION { [S -> 0..MaxQty] : S \in SUBSET {101, 102, 103} } }

\* useEffect(() => {...}, [eventId]): run once, before any event is handled,
\* with the given saved mapping in localStorage.
RoomInitFrom(savedMapping) ==
    /\ ~mounted
    /\ UNCHANGED <<auto, guestPage>>
    /\ rooms' = InitialRooms(savedMapping, rooms)
    /\ lastOp' = Op("init", savedMapping, "")
    /\ mounted' = TRUE
    /\ UNCHANGED <<unassignedGuests, draggedGuest, warning>>

RoomInit ==
    /\ ~mounted
    /\ \E savedMapping \in SavedMappings : RoomInitFrom(savedMapping)

RoomInitWide ==
    /\ ~mounted
    /\ \E savedMapping \in WideMappings : RoomInitFrom(savedMapping)

NextRooms == RoomInitWide

\* The mount effect alone, for every saved selection of WideMappings.
SpecRooms == Init /\ [][NextRooms]_vars

\* handleDragStart(guest, source), offered for every rendered guest card.
DragStart(guest, source) ==
    /\ mounted
    /\ UNCHANGED <<auto, guestPage>>
    /\ draggedGuest' = [guest |-> guest, source |-> source]
    /\ warning' = NULL
    /\ lastOp' = Op("dragStart", source, "")
    /\ UNCHANGED <<unassignedGuests, rooms, mounted>>

\* The rooms after an accepted drop: newRooms of handleDropToRoom.
DropRooms(rs, guest, source, targetRoomIndex) ==
    LET targetRoom == rs[targetRoomIndex]
        sourceRoomIndex == FindIndex(rs, source)
        newRooms ==
            IF source # "unassigned" /\ sourceRoomIndex # 0
            THEN [rs EXCEPT ![sourceRoomIndex].assigned =
                        FilterOut(rs[sourceRoomIndex].assigned, guest.id)]
            ELSE rs
    IN  [newRooms EXCEPT ![targetRoomIndex] =
            [targetRoom EXCEPT !.assigned = Append(targetRoom.assigned, guest)]]

\* The unassigned pool after an accepted drop on a room.
DropPool(pool, guest, source) ==
    IF source = "unassigned" THEN FilterOut(pool, guest.id) ELSE pool

\* handleDropToRoom: `if (!draggedGuest) return;`
DropIgnored(targetRoomId) ==
    /\ lastOp' = Op("dropRoom", targetRoomId, "ignored")
    /\ UNCHANGED <<unassignedGuests, rooms, draggedGuest, warning, mounted>>

\* Variant of the rejection branch that has already taken the guest out of
\* the pool when it rejects.
DropRejectedAfterRemoval(targetRoomId, guest, source) ==
    LET targetRoom == rooms[FindIndex(rooms, targetRoomId)]
    IN  /\ warning' = CapacityWarning(guest, targetRoom)
        /\ draggedGuest' = NULL
        /\ lastOp' = Op("dropRoom", targetRoomId, "rejected")
        /\ unassignedGuests' = DropPool(unassignedGuests, guest, source)
        /\ UNCHANGED <<rooms, mounted>>

\* handleDropToRoom: the branch taken when the capacity test fails.
DropRejected(targetRoomId, guest, source) ==
    LET targetRoom == rooms[FindIndex(rooms, targetRoomId)]
    IN  /\ warning' = CapacityWarning(guest, targetRoom)
        /\ draggedGuest' = NULL
        /\ lastOp' = Op("dropRoom", targetRoomId, "rejected")
        /\ UNCHANGED <<unassignedGuests, rooms, mounted>>

\* handleDropToRoom: the state updates of an accepted drop.
DropAccepted(targetRoomId, guest, source) ==
    LET targetRoomIndex == FindIndex(rooms, targetRoomId)
    IN  /\ Entries(DropPool(unassignedGuests, guest, source),
                   DropRooms(rooms, guest, source, targetRoomIndex)) <= MaxEntries
        /\ unassignedGuests' = DropPool(unassignedGuests, guest, source)
        /\ rooms' = DropRooms(rooms, guest, source, targetRoomIndex)
        /\ draggedGuest' = NULL
        /\ warning' = NULL
        /\ lastOp' = Op("dropRoom", targetRoomId, "accepted")
        /\ UNCHANGED mounted

\* handleDropToRoom(targetRoomId)
DropToRoom(targetRoomId) ==
    /\ mounted
    /\ UNCHANGED <<auto, guestPage>>
    /\ IF draggedGuest = NULL
       THEN DropIgnored(targetRoomId)
       ELSE LET guest == draggedGuest.guest
                source == draggedGuest.source
                targetRoom == rooms[FindIndex(rooms, targetRoomId)]
                currentOccupancy == Occupancy(targetRoom.assigned)
            IN  IF ExceedsCapacity(currentOccupancy, guest, targetRoom)
                THEN DropRejected(targetRoomId, guest, source)
                ELSE DropAccepted(targetRoomId, guest, source)

\* prevRooms.map(room => room.id === source ? {...room, assigned: filtered} : room)
UnassignRooms(rs, guest, source) ==
    [i \in 1..Len(rs) |->
        IF rs[i].id = source
        THEN [rs[i] EXCEPT !.assigned = FilterOut(rs[i].assigned, guest.id)]
        ELSE rs[i]]

\* handleDropToUnassigned()
DropToUnassigned ==
    /\ mounted
    /\ UNCHANGED <<auto, guestPage>>
    /\ IF draggedGuest = NULL
       THEN /\ lastOp' = Op("dropUnassigned", "", "ignored")
            /\ UNCHANGED <<unassignedGuests, rooms, draggedGuest, warning, mounted>>
       ELSE LET guest == draggedGuest.guest
                source == draggedGuest.source
            IN  IF source = "unassigned"
                THEN /\ draggedGuest' = NULL
                     /\ lastOp' = Op("dropUnassigned", "", "noop")
                     /\ UNCHANGED <<unassignedGuests, rooms, warning, mounted>>
                ELSE /\ Entries(Append(unassignedGuests, guest),
                                UnassignRooms(rooms, guest, source)) <= MaxEntries
                     /\ rooms' = UnassignRooms(rooms, guest, source)
                     /\ unassignedGuests' = Append(unassignedGuests, guest)
                     /\ warning' = NULL
                     /\ lastOp' = Op("dropUnassigned", "", "moved")
                     /\ UNCHANGED <<draggedGuest, mounted>>

\* Variant of the inner loop that gives up at the first guest that does
\* not fit.
RECURSIVE ScanGuestsStopAtMisfit(_, _, _, _, _)
ScanGuestsStopAtMisfit(remainingGuests, k, roomSpace, guestsToAdd, nextRemaining) ==
    IF k > Len(remainingGuests)
    THEN [guestsToAdd |-> guestsToAdd, nextRemaining |-> nextRemaining]
    ELSE LET guest == remainingGuests[k]
         IN  IF guest.occupancy <= roomSpace
             THEN ScanGuestsStopAtMisfit(remainingGuests, k + 1, roomSpace - guest.occupancy,
                                         Append(guestsToAdd, guest), nextRemaining)
             ELSE [guestsToAdd |-> guestsToAdd,
                   nextRemaining |-> nextRemaining \o SubSeq(remainingGuests, k, Len(remainingGuests))]

\* Variant of the scan that places a guest only if space is left over.
RECURSIVE ScanGuestsStrict(_, _, _, _, _)
ScanGuestsStrict(remainingGuests, k, roomSpace, guestsToAdd, nextRemaining) ==
    IF k > Len(remainingGuests)
    THEN [guestsToAdd |-> guestsToAdd, nextRemaining |-> nextRemaining]
    ELSE LET guest == remainingGuests[k]
         IN  IF guest.occupancy < roomSpace
             THEN ScanGuestsStrict(remainingGuests, k + 1, roomSpace - guest.occupancy,
                                   Append(guestsToAdd, guest), nextRemaining)
             ELSE ScanGuestsStrict(remainingGuests, k + 1, roomSpace,
                                   guestsToAdd, Append(nextRemaining, guest))

\* Variant of the scan that sorts nothing out but never lowers roomSpace.
RECURSIVE ScanGuestsNoDecrement(_, _, _, _, _)
ScanGuestsNoDecrement(remainingGuests, k, roomSpace, guestsToAdd, nextRemaining) ==
    IF k > Len(remainingGuests)
    THEN [guestsToAdd |-> guestsToAdd, nextRemaining |-> nextRemaining]
    ELSE LET guest == remainingGuests[k]
         IN  IF guest.occupancy <= roomSpace
             THEN ScanGuestsNoDecrement(remainingGuests, k + 1, roomSpace,
                                        Append(guestsToAdd, guest), nextRemaining)
             ELSE ScanGuestsNoDecrement(remainingGuests, k + 1, roomSpace,
                                        guestsToAdd, Append(nextRemaining, guest))

\* remainingGuests.forEach(guest => ...) of handleAutoAssign, for one room.
RECURSIVE ScanGuests(_, _, _, _, _)
ScanGuests(remainingGuests, k, roomSpace, guestsToAdd, nextRemaining) ==
    IF k > Len(remainingGuests)
    THEN [guestsToAdd |-> guestsToAdd, nextRemaining |-> nextRemaining]
    ELSE LET guest == remainingGuests[k]
         IN  IF guest.occupancy <= roomSpace
             THEN ScanGuests(remainingGuests, k + 1, roomSpace - guest.occupancy,
                             Append(guestsToAdd, guest), nextRemaining)
             ELSE ScanGuests(remainingGuests, k + 1, roomSpace,
                             guestsToAdd, Append(nextRemaining, guest))

\* newRooms.forEach((room, roomIndex) => ...) of handleAutoAssign.
RECURSIVE FillRooms(_, _, _)
FillRooms(newRooms, roomIndex, remainingGuests) ==
    IF roomIndex > Len(newRooms)
    THEN [rooms |-> newRooms, remainingGuests |-> remainingGuests]
    ELSE LET room == newRooms[roomIndex]
             currentOccupancy == Occupancy(room.assigned)
             roomSpace == room.capacity - currentOccupancy
         IN  IF roomSpace > 0
             THEN LET scan == ScanGuests(remainingGuests, 1, roomSpace, <<>>, <<>>)
                  IN  FillRooms(
                        IF Len(scan.guestsToAdd) > 0
                        THEN [newRooms EXCEPT ![roomIndex] =
                                [room EXCEPT !.assigned = room.assigned \o scan.guestsToAdd]]
                        ELSE newRooms,
                        roomIndex + 1, scan.nextRemaining)
             ELSE FillRooms(newRooms, roomIndex + 1, remainingGuests)

\* handleAutoAssign(); its button is disabled while the pool is empty.
AutoAssign ==
    /\ mounted
    /\ UNCHANGED <<auto, guestPage>>
    /\ Len(unassignedGuests) > 0
    /\ LET result == FillRooms(rooms, 1, unassignedGuests)
       IN  /\ rooms' = result.rooms
           /\ unassignedGuests' = result.remainingGuests
           /\ warning' = IF Len(result.remainingGuests) = 0 THEN NULL ELSE warning
    /\ lastOp' = Op("auto", "", IF lastOp.op = "auto" THEN "again" ELSE "first")
    /\ UNCHANGED <<draggedGuest, mounted>>

\* --- handleAutoAssign step by step: one action per loop iteration.  The
\* frame `auto` holds the locals; visits and looks record the rooms entered
\* and the (room, pool position) pairs examined.

\* Entry of handleAutoAssign: newRooms = [...rooms], remainingGuests = [...unassignedGuests].
AutoBegin ==
    /\ mounted
    /\ auto.pc = "idle"
    /\ Len(unassignedGuests) > 0
    /\ auto' = [pc |-> "room", newRooms |-> rooms, remainingGuests |-> unassignedGuests,
                roomIndex |-> 1, k |-> 1, roomSpace |-> 0,
                guestsToAdd |-> <<>>, nextRemaining |-> <<>>,
                visits |-> <<>>, looks |-> <<>>]
    /\ lastOp' = Op("autoBegin", "", "")
    /\ UNCHANGED <<unassignedGuests, rooms, draggedGuest, warning, mounted, guestPage>>

\* One callback of newRooms.forEach: enter the next room, or leave the loop.
AutoRoom ==
    /\ auto.pc = "room"
    /\ IF auto.roomIndex > Len(auto.newRooms)
       THEN auto' = [auto EXCEPT !.pc = "commit"]
       ELSE LET room == auto.newRooms[auto.roomIndex]
                currentOccupancy == Occupancy(room.assigned)
                roomSpace == room.capacity - currentOccupancy
            IN  IF roomSpace > 0
                THEN auto' = [auto EXCEPT !.pc = "guest", !.k = 1, !.roomSpace = roomSpace,
                                          !.guestsToAdd = <<>>, !.nextRemaining = <<>>,
                                          !.visits = Append(@, auto.roomIndex)]
                ELSE auto' = [auto EXCEPT !.roomIndex = @ + 1,
                                          !.visits = Append(@, auto.roomIndex)]
    /\ UNCHANGED <<unassignedGuests, rooms, draggedGuest, warning, mounted, lastOp, guestPage>>

\* Variant that enters the same room again after it has received guests.
AutoRoomDoneRescan(frame) ==
    [frame EXCEPT
        !.pc = "room",
        !.newRooms = IF Len(frame.guestsToAdd) > 0
                     THEN [@ EXCEPT ![frame.roomIndex].assigned = @ \o frame.guestsToAdd]
                     ELSE @,
        !.remainingGuests = frame.nextRemaining,
        !.roomIndex = IF Len(frame.guestsToAdd) > 0 THEN @ ELSE @ + 1]

\* The room update and `remainingGuests = nextRemaining` after a room's scan.
AutoRoomDone(frame) ==
    [frame EXCEPT
        !.pc = "room",
        !.newRooms = IF Len(frame.guestsToAdd) > 0
                     THEN [@ EXCEPT ![frame.roomIndex].assigned = @ \o frame.guestsToAdd]
                     ELSE @,
        !.remainingGuests = frame.nextRemaining,
        !.roomIndex = @ + 1]

\* One callback of remainingGuests.forEach, or the end of the room's scan.
AutoGuest ==
    /\ auto.pc = "guest"
    /\ IF auto.k > Len(auto.remainingGuests)
       THEN auto' = AutoRoomDone(auto)
       ELSE LET guest == auto.remainingGuests[auto.k]
            IN  IF guest.occupancy <= auto.roomSpace
                THEN auto' = [auto EXCEPT !.guestsToAdd = Append(@, guest),
                                          !.roomSpace = @ - guest.occupancy,
                                          !.k = @ + 1,
                                          !.looks = Append(@, <<auto.roomIndex, auto.k>>)]
                ELSE auto' = [auto EXCEPT !.nextRemaining = Append(@, guest),
                                          !.k = @ + 1,
                                          !.looks = Append(@, <<auto.roomIndex, auto.k>>)]
    /\ UNCHANGED <<unassignedGuests, rooms, draggedGuest, warning, mounted, lastOp, guestPage>>

\* setRooms(newRooms); setUnassignedGuests(remainingGuests); warning update.
AutoCommit ==
    /\ auto.pc = "commit"
    /\ rooms' = auto.newRooms
    /\ unassignedGuests' = auto.remainingGuests
    /\ warning' = IF Len(auto.remainingGuests) = 0 THEN NULL ELSE warning
    /\ auto' = [auto EXCEPT !.pc = "done"]
    /\ lastOp' = Op("auto", "", "steps")
    /\ UNCHANGED <<draggedGuest, mounted, guestPage>>

\* Variant of the collection that starts from an empty list instead of the pool.
RECURSIVE CollectGuestsRoomsOnly(_, _)
CollectGuestsRoomsOnly(allGuests, rs) ==
    IF rs = <<>> THEN <<>>
    ELSE Head(rs).assigned \o CollectGuestsRoomsOnly(allGuests, Tail(rs))

\* allGuests of handleReset: the pool followed by every room's guests.
RECURSIVE CollectGuests(_, _)
CollectGuests(allGuests, rs) ==
    IF rs = <<>> THEN allGuests
    ELSE CollectGuests(allGuests \o Head(rs).assigned, Tail(rs))

\* Variant of the clearing that copies the rooms without emptying them.
ResetRoomsShallow(rs) == [i \in 1..Len(rs) |-> rs[i]]

\* rooms.map(room => ({ ...room, assigned: [] }))
ResetRooms(rs) == [i \in 1..Len(rs) |-> [rs[i] EXCEPT !.assigned = <<>>]]

\* handleReset()
Reset ==
    /\ mounted
    /\ UNCHANGED <<auto, guestPage>>
    /\ rooms' = ResetRooms(rooms)
    /\ unassignedGuests' = CollectGuests(unassignedGuests, rooms)
    /\ warning' = NULL
    /\ lastOp' = Op("reset", "", IF lastOp.op = "reset" THEN "again" ELSE "first")
    /\ UNCHANGED <<draggedGuest, mounted>>

\* The dismiss button of the warning banner.
DismissWarning ==
    /\ mounted
    /\ UNCHANGED <<auto, guestPage>>
    /\ warning # NULL
    /\ warning' = NULL
    /\ lastOp' = Op("dismiss", "", "")
    /\ UNCHANGED <<unassignedGuests, rooms, draggedGuest, mounted>>

DragFromPool == \E i \in 1..Len(unassignedGuests) : DragStart(unassignedGuests[i], "unassigned")

DragFromRoom ==
    \E r \in 1..Len(rooms) : \E i \in 1..Len(rooms[r].assigned) :
        DragStart(rooms[r].assigned[i], rooms[r].id)

DropOnRoom == \E r \in 1..Len(rooms) : DropToRoom(rooms[r].id)

Next ==
    \/ RoomInit
    \/ DragFromPool
    \/ DragFromRoom
    \/ DropOnRoom
    \/ DropToUnassigned
    \/ AutoAssign
    \/ Reset
    \/ DismissWarning

\* The events of well-formed gestures only: a drop directly follows the drag
\* start of the same gesture.
GestureDropOnRoom == lastOp.op = "dragStart" /\ DropOnRoom

GestureDropToUnassigned == lastOp.op = "dragStart" /\ DropToUnassigned

GestureNext ==
    \/ RoomInit
    \/ DragFromPool
    \/ DragFromRoom
    \/ GestureDropOnRoom
    \/ GestureDropToUnassigned
    \/ AutoAssign
    \/ Reset
    \/ DismissWarning

SpecGestures == Init /\ [][GestureNext]_vars

Spec == Init /\ [][Next]_vars

\* ----------------------------------------------- handleAutoAssign alone
\* handleAutoAssign applied to arbitrary inputs: up to three guests with
\* occupancies 1..MaxOcc, each in the pool, in one of two rooms or absent,
\* in any order; two rooms with capacities 1..MaxCap, none over capacity.
MaxOcc == 3

MaxCap == 3

AutoGuestIds == {"A", "B", "C"}

AutoRoomIds == <<"R1", "R2">>

\* The orderings (as sequences) of a finite set.
Orderings(S) ==
    {q \in [1..Cardinality(S) -> S] : \A i, j \in 1..Cardinality(S) : i # j => q[i] # q[j]}

InitAuto ==
    \E occ \in [AutoGuestIds -> 1..MaxOcc] :
    \E cap \in [1..Len(AutoRoomIds) -> 1..MaxCap] :
    \E loc \in [AutoGuestIds -> 0..(Len(AutoRoomIds) + 1)] :
    \E order \in Orderings(AutoGuestIds) :
        LET at(l) == SelectSeq([i \in 1..Len(order) |-> Guest(order[i], order[i], occ[order[i]])],
                               LAMBDA g : loc[g.id] = l)
        IN  /\ \A r \in 1..Len(AutoRoomIds) : Occupancy(at(r)) <= cap[r]
            /\ unassignedGuests = at(0)
            /\ rooms = [r \in 1..Len(AutoRoomIds) |->
                            Room(AutoRoomIds[r], "H", AutoRoomIds[r], cap[r], at(r))]
            /\ draggedGuest = NULL
            /\ warning = NULL
            /\ mounted = TRUE
            /\ lastOp = Op("construct", "", "")
            /\ auto = AutoIdle
            /\ GuestPageInit(NoSession)

NextAuto == AutoAssign

SpecAuto == InitAuto /\ [][NextAuto]_vars

\* One call of handleAutoAssign followed step by step on the same inputs.
NextAutoSteps ==
    \/ AutoBegin
    \/ AutoRoom
    \/ AutoGuest
    \/ AutoCommit

SpecAutoSteps == InitAuto /\ [][NextAutoSteps]_vars

\* The handler runs to completion once called: its steps are never postponed
\* for ever.
SpecAutoStepsFair ==
    SpecAutoSteps /\ WF_vars(AutoRoom) /\ WF_vars(AutoGuest) /\ WF_vars(AutoCommit)

\* ------------------------------------------------------ guest list view
\* Most fetches the model follows in one behaviour.
MaxFetches == 2

\* Most guests in a fetched list of the grouping specification.
MaxListed == 3

\* A fetched guest: the fields the view computes with (ID, FamilyID; an
\* absent FamilyID is the empty string).
ListedGuest(id, familyId) == [ID |-> id, FamilyID |-> familyId]

\* const key = guest.FamilyID || guest.ID
GroupKey(guest) == IF guest.FamilyID # "" THEN guest.FamilyID ELSE guest.ID

\* One step of guests.reduce: acc[key] is created if missing, then pushed to.
\* acc is kept as the list of its entries in insertion order.
GroupStep(acc, guest) ==
    LET key == GroupKey(guest)
    IN  IF \E i \in 1..Len(acc) : acc[i].key = key
        THEN [i \in 1..Len(acc) |->
                IF acc[i].key = key
                THEN [acc[i] EXCEPT !.members = Append(@, guest)]
                ELSE acc[i]]
        ELSE Append(acc, [key |-> key, members |-> <<guest>>])

\* guests.reduce((acc, guest) => ..., {})
RECURSIVE GroupReduce(_, _)
GroupReduce(acc, list) ==
    IF list = <<>> THEN acc
    ELSE GroupReduce(GroupStep(acc, Head(list)), Tail(list))

\* guestGroups = Object.values(groupedGuests)
GuestGroups(list) ==
    LET acc == GroupReduce(<<>>, list)
    IN  [i \in 1..Len(acc) |-> acc[i].members]

\* The values of eventId, token and isAuthenticated the view is followed for.
Sessions ==
    [eventId : {"e1", "e2"}, token : {"", "t1", "t2"}, isAuthenticated : BOOLEAN]

\* The guest lists the backend answers with in the view's specification.
SmallPayloads ==
    { << ListedGuest("g1", "") >>,
      << ListedGuest("g1", "f1"), ListedGuest("g2", "f1") >> }

\* All lists of at most MaxListed guests with distinct IDs; a FamilyID is
\* absent, a family's id, or the ID of the first guest.
WidePayloads ==
    LET ids == {"g" \o ToString(i) : i \in 1..MaxListed}
        listed == [ID : ids, FamilyID : {"", "f1", "g1"}]
    IN  UNION { {q \in [1..n -> listed] :
                    \A i, j \in 1..n : i # j => q[i].ID # q[j].ID} : n \in 0..MaxListed }

\* What a fetch can end with: the transport fails, the status is not OK, the
\* body is not JSON, or a JSON body with or without data.guests.
Responses(payloads) ==
    [kind : {"networkError", "notOk", "badJson"}, success : {FALSE},
     data : {"none"}, list : {<<>>}]
    \cup [kind : {"json"}, success : BOOLEAN, data : {"none", "noGuests"}, list : {<<>>}]
    \cup [kind : {"json"}, success : BOOLEAN, data : {"guests"}, list : payloads \cup {<<>>}]

\* Whether fetchGuests reaches its catch block.
Throws(response) == response.kind # "json"

\* The argument of setGuests for a parsed body.
ParsedGuests(response) ==
    IF response.success /\ response.data = "guests"
    THEN response.list
    ELSE IF response.data = "guests" THEN response.list ELSE <<>>

\* The effect body: fetchGuests() is called if isAuthenticated, and starts
\* a request (after setLoading(true)) unless token or isAuthenticated is falsy.
StartsFetch(s) == s.isAuthenticated /\ s.token # ""

RunEffect(s) ==
    IF StartsFetch(s)
    THEN /\ Len(fetches) < MaxFetches
         /\ loading' = TRUE
         /\ fetches' = Append(fetches, [eventId |-> s.eventId, status |-> "inflight",
                                        list |-> <<>>])
    ELSE UNCHANGED <<loading, fetches>>

InitGuests ==
    /\ unassignedGuests = DemoGuests
    /\ rooms = <<>>
    /\ draggedGuest = NULL
    /\ warning = NULL
    /\ mounted = FALSE
    /\ lastOp = Op("construct", "", "")
    /\ auto = AutoIdle
    /\ \E s \in Sessions : GuestPageInit(s)

\* The first run of useEffect(..., [eventId, token, isAuthenticated]).
GuestMount ==
    /\ ~mounted
    /\ mounted' = TRUE
    /\ RunEffect(session)
    /\ lastOp' = Op("mount", "", IF StartsFetch(session) THEN "fetch" ELSE "")
    /\ UNCHANGED <<unassignedGuests, rooms, draggedGuest, warning, auto,
                   session, guests, guestGroups>>

\* A dependency of the effect changes and the effect runs again.
SessionChanged ==
    /\ mounted
    /\ \E s \in Sessions :
          /\ s # session
          /\ session' = s
          /\ RunEffect(s)
          /\ lastOp' = Op("effect", "", IF StartsFetch(s) THEN "fetch" ELSE "")
    /\ UNCHANGED <<unassignedGuests, rooms, draggedGuest, warning, auto, mounted,
                   guests, guestGroups>>

\* fetchGuests resumes after its await for fetch n: try, catch, finally,
\* and the render that follows.
FetchSettles(n, response) ==
    /\ fetches[n].status = "inflight"
    /\ IF Throws(response)
       THEN /\ fetches' = [fetches EXCEPT ![n].status = "failed"]
            /\ lastOp' = Op("fetchDone", ToString(n), "failed")
            /\ UNCHANGED <<guests, guestGroups>>
       ELSE /\ guests' = ParsedGuests(response)
            /\ guestGroups' = GuestGroups(ParsedGuests(response))
            /\ fetches' = [fetches EXCEPT ![n].status = "ok",
                                          ![n].list = ParsedGuests(response)]
            /\ lastOp' = Op("fetchDone", ToString(n), "ok")
    /\ loading' = FALSE
    /\ UNCHANGED <<unassignedGuests, rooms, draggedGuest, warning, auto, mounted, session>>

FetchSettled ==
    \E n \in 1..Len(fetches) : \E response \in Responses(SmallPayloads) :
        FetchSettles(n, response)

NextGuests ==
    \/ GuestMount
    \/ SessionChanged
    \/ FetchSettled

SpecGuests == InitGuests /\ [][NextGuests]_vars

\* The view with one fetch answered by any list of WidePayloads.
FetchSettledWide ==
    \E n \in 1..Len(fetches) : \E response \in Responses(WidePayloads) :
        FetchSettles(n, response)

NextGroups ==
    \/ GuestMount
    \/ FetchSettledWide

SpecGroups == InitGuests /\ [][NextGroups]_vars

\* ------------------------------------------------------------- properties
\* The list without every entry of the given guest.
Without(list, guest) == SelectSeq(list, LAMBDA x : x.id # guest.id)

\* Number of entries of the guest id in the list.
CountIn(list, id) == Cardinality({i \in 1..Len(list) : list[i].id = id})

\* Number of entries of the guest id in the pool and all rooms together.
RECURSIVE CountInRooms(_, _)
CountInRooms(rs, id) ==
    IF rs = <<>> THEN 0 ELSE CountIn(Head(rs).assigned, id) + CountInRooms(Tail(rs), id)

TotalCount(id) == CountIn(unassignedGuests, id) + CountInRooms(rooms, id)

\* The multiset of the entries of a list.
BagOfList(list) ==
    [x \in {list[i] : i \in 1..Len(list)} |->
        Cardinality({i \in 1..Len(list) : list[i] = x})]

\* The multiset of the guests held by the rooms.
RECURSIVE BagOfRooms(_)
BagOfRooms(rs) ==
    IF rs = <<>> THEN EmptyBag ELSE BagOfList(Head(rs).assigned) (+) BagOfRooms(Tail(rs))

\* The index of the room a drop was aimed at.
TargetIndex(rs, op) == CHOOSE t \in 1..Len(rs) : rs[t].id = op.target

\* C1: for every room the occupancy of its assigned guests never exceeds
\* the room's capacity.
CapacityInvariant ==
    \A r \in 1..Len(rooms) : Occupancy(rooms[r].assigned) <= rooms[r].capacity

\* A drop was rejected and left some room exactly full.
CapacityWitness ==
    /\ lastOp.op = "dropRoom" /\ lastOp.result = "rejected"
    /\ \E r \in 1..Len(rooms) :
          /\ rooms[r].id = lastOp.target
          /\ Occupancy(rooms[r].assigned) = rooms[r].capacity

\* C2: every guest id occurs exactly once over the unassigned pool and all
\* rooms' assigned lists, and nothing else occurs there.
ConservationSingleLocation ==
    /\ \A i \in 1..Len(DemoGuests) : TotalCount(DemoGuests[i].id) = 1
    /\ Entries(unassignedGuests, rooms) = Len(DemoGuests)

\* C3: a drop on a room that is rejected for capacity leaves the unassigned
\* pool and every room's assigned list as they were.
AssignFailureNoOp ==
    [][lastOp'.op = "dropRoom" /\ lastOp'.result = "rejected"
        => unassignedGuests' = unassignedGuests /\ rooms' = rooms]_vars

\* A rejected drop of a guest that came from a room holding other guests too.
AssignFailureWitness ==
    /\ lastOp.op = "dropRoom" /\ lastOp.result = "rejected"
    /\ warning # NULL
    /\ Len(unassignedGuests) > 0
    /\ \E r \in 1..Len(rooms) : rooms[r].id # lastOp.target /\ Len(rooms[r].assigned) > 0

\* C4: a drop of the dragged guest on a room is rejected exactly when the
\* room's occupancy plus the guest's occupancy exceeds the room's capacity;
\* a rejected drop sets the warning naming guest, room type and capacity,
\* an accepted drop leaves the warning null.
RejectionCondition ==
    [][lastOp'.op = "dropRoom" /\ draggedGuest # NULL
        => LET g == draggedGuest.guest
               r == rooms[TargetIndex(rooms, lastOp')]
               over == Occupancy(r.assigned) + g.occupancy > r.capacity
           IN  /\ lastOp'.result \in {"rejected", "accepted"}
               /\ (lastOp'.result = "rejected") <=> over
               /\ over => /\ warning' = [guest |-> g.name, type |-> r.type,
                                         capacity |-> r.capacity]
                          /\ Occupancy(rooms'[TargetIndex(rooms, lastOp')].assigned)
                                = Occupancy(r.assigned)
               /\ ~over => warning' = NULL]_vars

\* Scenario 1: a room of capacity 2 holding occupancy 1 has rejected a guest
\* of occupancy 2.
RejectionWitness ==
    /\ lastOp.op = "dropRoom" /\ lastOp.result = "rejected"
    /\ \E r \in 1..Len(rooms) :
          /\ rooms[r].id = lastOp.target
          /\ rooms[r].capacity = 2
          /\ Occupancy(rooms[r].assigned) = 1
          /\ warning = [guest |-> "Rajesh Kumar", type |-> rooms[r].type, capacity |-> 2]

\* C5: an accepted drop of guest g from source s on room r removes g from s
\* and appends it to r: g is the last entry of r, s no longer holds g, the
\* other rooms are unchanged, the pool only loses g, draggedGuest is cleared.
AssignSuccessEffect ==
    [][lastOp'.op = "dropRoom" /\ lastOp'.result = "accepted"
        => LET g == draggedGuest.guest
               s == draggedGuest.source
               t == TargetIndex(rooms, lastOp')
           IN  /\ Len(rooms') = Len(rooms)
               /\ rooms'[t].assigned =
                     Append(IF rooms[t].id = s THEN Without(rooms[t].assigned, g)
                            ELSE rooms[t].assigned, g)
               /\ \A i \in 1..Len(rooms) :
                     i # t => rooms'[i] =
                        IF rooms[i].id = s
                        THEN [rooms[i] EXCEPT !.assigned = Without(rooms[i].assigned, g)]
                        ELSE rooms[i]
               /\ unassignedGuests' =
                     IF s = "unassigned" THEN Without(unassignedGuests, g)
                     ELSE unassignedGuests
               /\ draggedGuest' = NULL]_vars

\* C6: a drop of guest g on the unassigned area: if a room R holds g, then
\* afterwards g is the last entry of the pool, R no longer holds g, R's
\* occupancy is smaller by exactly g.occupancy and the other rooms are
\* unchanged; if g is already in the pool, both collections are unchanged.
UnassignEffect ==
    [][lastOp'.op = "dropUnassigned" /\ draggedGuest # NULL
        => LET g == draggedGuest.guest
           IN  IF CountIn(unassignedGuests, g.id) > 0
               THEN unassignedGuests' = unassignedGuests /\ rooms' = rooms
               ELSE /\ unassignedGuests' = Append(unassignedGuests, g)
                    /\ Len(rooms') = Len(rooms)
                    /\ \A i \in 1..Len(rooms) :
                          IF CountIn(rooms[i].assigned, g.id) > 0
                          THEN /\ CountIn(rooms'[i].assigned, g.id) = 0
                               /\ Occupancy(rooms'[i].assigned)
                                    = Occupancy(rooms[i].assigned) - g.occupancy
                          ELSE rooms'[i] = rooms[i]]_vars

\* C8: reset empties every room's assigned list, keeps every room's id,
\* hotel, type and capacity, and leaves in the pool exactly the multiset of
\* the guests that were in the pool or in a room.
ResetPostcondition ==
    [][lastOp'.op = "reset"
        => /\ Len(rooms') = Len(rooms)
           /\ \A i \in 1..Len(rooms) :
                 /\ rooms'[i].assigned = <<>>
                 /\ rooms'[i].id = rooms[i].id
                 /\ rooms'[i].hotel = rooms[i].hotel
                 /\ rooms'[i].type = rooms[i].type
                 /\ rooms'[i].capacity = rooms[i].capacity
           /\ BagOfList(unassignedGuests') =
                 BagOfList(unassignedGuests) (+) BagOfRooms(rooms)]_vars

\* A reset has gathered guests from the pool and from two rooms.
ResetWitness ==
    /\ lastOp.op = "reset" /\ lastOp.result = "first"
    /\ Len(rooms) = 2
    /\ \A i \in 1..Len(rooms) : rooms[i].assigned = <<>>
    /\ Len(unassignedGuests) = Len(DemoGuests)
    /\ unassignedGuests # DemoGuests

\* C9: a reset that directly follows a reset changes nothing: the state
\* after reset(); reset() is the state after one reset(), with all rooms
\* empty.
ResetIdempotence ==
    [][lastOp.op = "reset" /\ lastOp'.op = "reset"
        => /\ UNCHANGED <<unassignedGuests, rooms, draggedGuest, warning>>
           /\ \A i \in 1..Len(rooms') : rooms'[i].assigned = <<>>]_vars

\* Two resets in a row, of a state that had guests in rooms.
ResetTwiceWitness ==
    /\ lastOp.op = "reset" /\ lastOp.result = "again"
    /\ Len(rooms) > 0
    /\ \A i \in 1..Len(rooms) : rooms[i].assigned = <<>>
    /\ Len(unassignedGuests) = Len(DemoGuests)
    /\ unassignedGuests # DemoGuests

\* The entries of a list at the positions of K, in list order.
RECURSIVE PickFrom(_, _, _)
PickFrom(list, k, K) ==
    IF k > Len(list) THEN <<>>
    ELSE (IF k \in K THEN <<list[k]>> ELSE <<>>) \o PickFrom(list, k + 1, K)

\* The occupancy of the entries of a list at the positions of K.
RECURSIVE OccupancyAt(_, _)
OccupancyAt(list, K) ==
    IF K = {} THEN 0
    ELSE LET k == CHOOSE x \in K : TRUE
         IN  list[k].occupancy + OccupancyAt(list, K \ {k})

\* f places pool position k in room f[k] (0: nowhere) first-fit in order: a
\* guest goes to room i exactly if no earlier room took it and it fits the
\* space room i has left after its own guests and the earlier pool guests
\* placed there.
IsFirstFitPlacement(f, pool, rs) ==
    \A k \in 1..Len(pool) : \A i \in 1..Len(rs) :
        f[k] = i <=>
            /\ \A j \in 1..(i - 1) : f[k] # j
            /\ pool[k].occupancy <=
                  rs[i].capacity - Occupancy(rs[i].assigned)
                    - OccupancyAt(pool, {m \in 1..(k - 1) : f[m] = i})

\* pool2, rs2 are what first-fit in order makes of pool, rs.
IsFirstFitResult(pool, rs, pool2, rs2) ==
    \E f \in [1..Len(pool) -> 0..Len(rs)] :
        /\ IsFirstFitPlacement(f, pool, rs)
        /\ Len(rs2) = Len(rs)
        /\ \A i \in 1..Len(rs) :
              rs2[i] = [rs[i] EXCEPT !.assigned =
                            rs[i].assigned \o PickFrom(pool, 1, {k \in 1..Len(pool) : f[k] = i})]
        /\ pool2 = PickFrom(pool, 1, {k \in 1..Len(pool) : f[k] = 0})

Scenario2Pool == << Guest("A", "A", 2), Guest("B", "B", 1), Guest("C", "C", 3) >>

Scenario2Rooms == << Room("R1", "H", "R1", 2, <<>>), Room("R2", "H", "R2", 3, <<>>) >>

\* C7: auto-assign yields the first-fit-in-order result: rooms in list
\* order, pool guests in pool order, a guest placed iff it fits the room's
\* remaining space, placed guests appended after the room's guests, the
\* others kept in order; pool [A(2), B(1), C(3)] with empty rooms
\* [R1(2), R2(3)] gives R1 = [A], R2 = [B], pool = [C].
AutoAssignFirstFit ==
    [][lastOp'.op = "auto"
        => /\ IsFirstFitResult(unassignedGuests, rooms, unassignedGuests', rooms')
           /\ (unassignedGuests = Scenario2Pool /\ rooms = Scenario2Rooms)
                => /\ rooms'[1].assigned = << Guest("A", "A", 2) >>
                   /\ rooms'[2].assigned = << Guest("B", "B", 1) >>
                   /\ unassignedGuests' = << Guest("C", "C", 3) >>]_vars

\* Scenario 2 after auto-assign.
AutoAssignWitness ==
    /\ lastOp.op = "auto"
    /\ rooms = << Room("R1", "H", "R1", 2, << Guest("A", "A", 2) >>),
                  Room("R2", "H", "R2", 3, << Guest("B", "B", 1) >>) >>
    /\ unassignedGuests = << Guest("C", "C", 3) >>

\* Some placement of all pool guests into the rooms respects every capacity.
CanPlaceAll(pool, rs) ==
    \E f \in [1..Len(pool) -> 1..Len(rs)] :
        \A i \in 1..Len(rs) :
            Occupancy(rs[i].assigned) + OccupancyAt(pool, {k \in 1..Len(pool) : f[k] = i})
                <= rs[i].capacity

NotOptimalPool == << Guest("A", "A", 1), Guest("B", "B", 2) >>

NotOptimalRooms == << Room("R1", "H", "R1", 2, <<>>), Room("R2", "H", "R2", 1, <<>>) >>

\* C10: auto-assign is not optimal: for pool [A(1), B(2)] and empty rooms
\* [R1(2), R2(1)] it leaves a guest unassigned although a placement of every
\* guest within the capacities exists (the pool in the order [B, A] is
\* placed completely).
AutoAssignNotOptimal ==
    [][lastOp'.op = "auto" /\ unassignedGuests = NotOptimalPool /\ rooms = NotOptimalRooms
        => /\ Len(unassignedGuests') > 0
           /\ CanPlaceAll(unassignedGuests, rooms)
           /\ FillRooms(rooms, 1, << unassignedGuests[2], unassignedGuests[1] >>)
                .remainingGuests = <<>>]_vars

\* Auto-assign has left B(2) out although B fits R1 and A fits R2.
NotOptimalWitness ==
    /\ lastOp.op = "auto"
    /\ unassignedGuests = << Guest("B", "B", 2) >>
    /\ rooms = << Room("R1", "H", "R1", 2, << Guest("A", "A", 1) >>),
                  Room("R2", "H", "R2", 1, <<>>) >>
    /\ CanPlaceAll(<< Guest("A", "A", 1), Guest("B", "B", 2) >>, NotOptimalRooms)

\* The rooms were entered once each in list order and no pool position was
\* examined twice for the same room.
SinglePass ==
    /\ auto.visits = [i \in 1..Len(rooms) |-> i]
    /\ \A i, j \in 1..Len(auto.looks) : i # j => auto.looks[i] # auto.looks[j]
    /\ \A i, j \in 1..Len(auto.looks) : i < j => auto.looks[i][1] <= auto.looks[j][1]

\* C11: a call of handleAutoAssign always completes, having entered every
\* room exactly once in list order, never an earlier room again, and having
\* examined each remaining guest at most once per room.
AutoAssignSinglePass ==
    (auto.pc # "idle") ~> (auto.pc = "done" /\ lastOp.op = "auto" /\ SinglePass)

\* A completed call that entered both rooms and examined guests in each.
SinglePassWitness ==
    /\ auto.pc = "done"
    /\ auto.visits = <<1, 2>>
    /\ \E i, j \in 1..Len(auto.looks) : auto.looks[i][1] = 1 /\ auto.looks[j][1] = 2
    /\ Len(unassignedGuests) > 0

\* C12: whenever a guest fetch fails (status not OK, transport or parse
\* error), also one issued after an earlier fetch succeeded, the guest list
\* shown afterwards is empty.
FetchFailureShowsEmpty ==
    [][lastOp'.op = "fetchDone" /\ lastOp'.result = "failed"
        => guests' = <<>> /\ guestGroups' = <<>>]_vars

\* The position of a guest in the fetched list.
ListedAt(g) == CHOOSE i \in 1..Len(guests) : guests[i] = g

\* The groups that hold guest g.
GroupsOf(g) ==
    {i \in 1..Len(guestGroups) :
        \E j \in 1..Len(guestGroups[i]) : guestGroups[i][j] = g}

\* C13: the groups partition the fetched guests; two guests share a group
\* iff they share a family identifier; a guest without family identifier is
\* alone in its group; members keep fetch order.
FamilyGrouping ==
    LET listed == {guests[i] : i \in 1..Len(guests)}
    IN  /\ \A i \in 1..Len(guestGroups) :
              /\ Len(guestGroups[i]) > 0
              /\ \A j \in 1..Len(guestGroups[i]) : guestGroups[i][j] \in listed
              /\ \A j, k \in 1..Len(guestGroups[i]) :
                    j < k => ListedAt(guestGroups[i][j]) < ListedAt(guestGroups[i][k])
        /\ \A g \in listed : Cardinality(GroupsOf(g)) = 1
        /\ \A g, h \in listed :
              g # h => ((GroupsOf(g) = GroupsOf(h))
                            <=> (g.FamilyID # "" /\ g.FamilyID = h.FamilyID))
        /\ \A g \in listed :
              g.FamilyID = "" => \A i \in GroupsOf(g) : guestGroups[i] = <<g>>

\* C19: once no fetch is in flight and the fetch started last has succeeded,
\* the list shown is that fetch's result, in whatever order the responses
\* arrived.
LatestFetchWins ==
    (/\ Len(fetches) > 0
     /\ \A n \in 1..Len(fetches) : fetches[n].status # "inflight"
     /\ fetches[Len(fetches)].status = "ok")
        => guests = fetches[Len(fetches)].list

\* C20: once the effect has run, loading is true exactly while a fetch is
\* in flight.
LoadingTracksFetch ==
    mounted => (loading <=> \E n \in 1..Len(fetches) : fetches[n].status = "inflight")

\* The room types of a hotel of the catalogue.
RoomTypesOf(hotel) ==
    UNION { {hotel.rooms[c][i] : i \in 1..Len(hotel.rooms[c])} : c \in 1..Len(hotel.rooms) }

\* The purchased quantity of a room type in a saved mapping.
Purchased(savedMapping, type) ==
    IF type.id \in DOMAIN savedMapping.selectedRooms
    THEN savedMapping.selectedRooms[type.id]
    ELSE 0

HeldOnceBySource(op) ==
    /\ draggedGuest # NULL
    /\ draggedGuest.source = op.target
    /\ CountIn(rooms[TargetIndex(rooms, op)].assigned, draggedGuest.guest.id) = 1

\* C15: a drop of a guest on the room that already holds it, accepted or
\* rejected, leaves the guest in that room exactly once and the room's
\* occupancy unchanged.
SameRoomDropNoDuplicate ==
    [][(lastOp'.op = "dropRoom" /\ HeldOnceBySource(lastOp'))
        => LET t == TargetIndex(rooms, lastOp')
           IN  /\ CountIn(rooms'[t].assigned, draggedGuest.guest.id) = 1
               /\ Occupancy(rooms'[t].assigned) = Occupancy(rooms[t].assigned)]_vars

DropOps == {"dropRoom", "dropUnassigned"}

\* C16: every drop leaves no pending move, and a drop that directly follows
\* a drop changes neither the pool nor the rooms.
DropConsumesPendingMove ==
    [][/\ lastOp'.op \in DropOps => draggedGuest' = NULL
       /\ (lastOp.op \in DropOps /\ lastOp'.op \in DropOps)
            => UNCHANGED <<unassignedGuests, rooms>>]_vars

\* C17: a pending move's source is where its guest is: the pool for
\* 'unassigned', otherwise the room of that id.
PendingMoveConsistent ==
    draggedGuest # NULL
        => IF draggedGuest.source = "unassigned"
           THEN CountIn(unassignedGuests, draggedGuest.guest.id) >= 1
           ELSE \E r \in 1..Len(rooms) :
                    /\ rooms[r].id = draggedGuest.source
                    /\ CountIn(rooms[r].assigned, draggedGuest.guest.id) >= 1

\* No guest of the pool fits in the free space of any room.
Maximal(pool, rs) ==
    \A k \in 1..Len(pool) : \A r \in 1..Len(rs) :
        pool[k].occupancy > rs[r].capacity - Occupancy(rs[r].assigned)

\* C18: right after handleAutoAssign no guest left in the pool fits in any
\* room, and a handleAutoAssign that directly follows another changes
\* neither the pool nor the rooms.
AutoAssignMaximal ==
    [][lastOp'.op = "auto"
        => /\ Maximal(unassignedGuests', rooms')
           /\ lastOp.op = "auto" => UNCHANGED <<unassignedGuests, rooms>>]_vars

\* handleAutoAssign ran twice in a row, a guest is left over and a room
\* still has free space.
AutoAssignTwiceWitness ==
    /\ lastOp.op = "auto"
    /\ lastOp.result = "again"
    /\ Len(unassignedGuests) > 0
    /\ \E r \in 1..Len(rooms) : Occupancy(rooms[r].assigned) < rooms[r].capacity

====
